---- MODULE Spec2Model ----
(***************************************************************************)
(* Model of src/mmv_daily_total.py: the daily scrape pipeline (fetch with  *)
(* retry, table location, row extraction, exclusion, deduplication, the    *)
(* per-day snapshot files and the upsert of the total-history CSV).        *)
(*                                                                         *)
(* Text is modelled as text: a Python str is a sequence of one-character   *)
(* strings, so stripping, case folding, splitting, digit parsing, number   *)
(* formatting and pattern search are computed character by character.      *)
(* Non-ASCII characters are written by name ("upsilon_tonos").             *)
(* An Optional value is <<>> for None and <<v>> for a value v.             *)
(***************************************************************************)
EXTENDS Integers, Sequences, FiniteSets, TLC

\* ---------------------------------------------------------------- bounds
MaxRows == 3       \* rows of a scraped table (single-run specification)
MaxStrLen == 4     \* length of the strings handed to parse_human_int
MaxDay == 2        \* calendar days the clock runs through
MaxRuns == 3       \* pipeline invocations
PastDays == 2      \* earlier days the lines of an existing totals file are dated
MaxExisting == 2   \* data lines of an existing totals file

\* the clock runs from FirstDay to LastDay
FirstDay == PastDays + 1
LastDay == PastDays + MaxDay

\* ------------------------------------------------------------- constants
retries == 3       \* fetch(url, retries=3, wait=2)

None == <<>>
Some(v) == <<v>>

\* ------------------------------------------------------------ characters
DigitSeq == <<"0","1","2","3","4","5","6","7","8","9">>
UpperSeq == <<"A","B","C","D","E","F","G","H","I","J","K","L","M",
              "N","O","P","Q","R","S","T","U","V","W","X","Y","Z","Mu">>
LowerSeq == <<"a","b","c","d","e","f","g","h","i","j","k","l","m",
              "n","o","p","q","r","s","t","u","v","w","x","y","z","mu">>
GreekLower == {"mu","omicron","upsilon","upsilon_tonos","rho","eta"}

Range(f) == {f[x] : x \in DOMAIN f}
Digits == Range(DigitSeq)

\* str.isspace() of one character
IsSpace(c) == c \in {" ", "\t", "\n"}

DigitVal(c) == (CHOOSE k \in 1..10 : DigitSeq[k] = c) - 1

\* str.lower() of one character
LowerChar(c) ==
    IF \E k \in 1..Len(UpperSeq) : UpperSeq[k] = c
    THEN LowerSeq[CHOOSE k \in 1..Len(UpperSeq) : UpperSeq[k] = c]
    ELSE c

\* NFD decomposition of one character with the combining marks (category Mn)
\* dropped: the empty string for a bare combining mark.
StripAccentChar(c) ==
    CASE c = "upsilon_tonos" -> <<"upsilon">>
      [] c = "combining_acute" -> <<>>
      [] OTHER -> <<c>>

\* the regular expression class \w of one character
IsWordChar(c) ==
    \/ c \in Digits
    \/ c \in Range(UpperSeq) \/ c \in Range(LowerSeq)
    \/ c \in GreekLower
    \/ c = "_"

\* --------------------------------------------------------- str operations
RECURSIVE LStrip(_)
LStrip(x) == IF x # <<>> /\ IsSpace(Head(x)) THEN LStrip(Tail(x)) ELSE x

RECURSIVE RStrip(_)
RStrip(x) ==
    IF x # <<>> /\ IsSpace(x[Len(x)]) THEN RStrip(SubSeq(x, 1, Len(x) - 1)) ELSE x

\* str.strip()
Strip(x) == RStrip(LStrip(x))

\* str.replace(c, "")
Remove(x, c) == SelectSeq(x, LAMBDA e : e # c)

\* str.isdigit()
IsDigitStr(x) == x # <<>> /\ \A k \in 1..Len(x) : x[k] \in Digits

\* int(x) of a digit string
RECURSIVE IntOfDigits(_)
IntOfDigits(x) ==
    IF x = <<>> THEN 0
    ELSE IntOfDigits(SubSeq(x, 1, Len(x) - 1)) * 10 + DigitVal(x[Len(x)])

\* str.lower()
Lower(x) == [k \in 1..Len(x) |-> LowerChar(x[k])]

\* str.startswith(p)
StartsWith(x, p) == Len(x) >= Len(p) /\ SubSeq(x, 1, Len(p)) = p

\* format of an int: f"{n}"
RECURSIVE NatStr(_)
NatStr(n) ==
    IF n < 10 THEN <<DigitSeq[n + 1]>>
    ELSE NatStr(n \div 10) \o <<DigitSeq[(n % 10) + 1]>>

IntStr(n) == IF n < 0 THEN <<"-">> \o NatStr(0 - n) ELSE NatStr(n)

\* ------------------------------------------------------- parse_human_int
\* int(s) if s.isdigit() else None, after strip() and replace(",", "")
parse_human_int(text) ==
    LET x == Remove(Strip(text), ",")
    IN  IF IsDigitStr(x) THEN Some(IntOfDigits(x)) ELSE None

\* ---------------------------------------------- parse_duration_to_seconds
\* position of the first occurrence of c in x, 0 when absent
FirstIndex(x, c) ==
    IF \E k \in 1..Len(x) : x[k] = c
    THEN CHOOSE k \in 1..Len(x) : x[k] = c /\ \A j \in 1..(k - 1) : x[j] # c
    ELSE 0

RECURSIVE Pow10(_)
Pow10(n) == IF n = 0 THEN 1 ELSE 10 * Pow10(n - 1)

\* float(x) succeeds: digits with at most one decimal point and at least one
\* digit (duration cells are drawn from digits, ":" and ".").
IsFloatStr(x) ==
    /\ \A k \in 1..Len(x) : x[k] \in Digits \cup {"."}
    /\ \E k \in 1..Len(x) : x[k] \in Digits
    /\ Cardinality({k \in 1..Len(x) : x[k] = "."}) <= 1

\* int(round(float(x))): Python rounds a half to the even neighbour
RoundFloatStr(x) ==
    LET dot   == FirstIndex(x, ".")
        ipart == IF dot = 0 THEN x ELSE SubSeq(x, 1, dot - 1)
        fpart == IF dot = 0 THEN <<>> ELSE SubSeq(x, dot + 1, Len(x))
        i     == IntOfDigits(ipart)
        f     == IntOfDigits(fpart)
        unit  == Pow10(Len(fpart))
    IN  IF 2 * f > unit \/ (2 * f = unit /\ i % 2 = 1) THEN i + 1 ELSE i

parse_duration_to_seconds(text) ==
    LET x     == Strip(text)
        colon == FirstIndex(x, ":")
        mins  == SubSeq(x, 1, colon - 1)
        secs  == SubSeq(x, colon + 1, Len(x))
    IN  IF colon > 0 /\ IsDigitStr(mins) /\ IsDigitStr(secs) /\ Len(secs) <= 2
        THEN Some(IntOfDigits(mins) * 60 + IntOfDigits(secs))
        ELSE IF IsFloatStr(x) THEN Some(RoundFloatStr(x)) ELSE None

\* ------------------------------------------ norm_title_preserve_version
RECURSIVE strip_accents(_)
strip_accents(x) ==
    IF x = <<>> THEN <<>> ELSE StripAccentChar(Head(x)) \o strip_accents(Tail(x))

\* re.sub(r"\s+", " ", x)
RECURSIVE CollapseSpaces(_)
CollapseSpaces(x) ==
    IF x = <<>> THEN <<>>
    ELSE IF IsSpace(Head(x)) THEN <<" ">> \o CollapseSpaces(LStrip(x))
    ELSE <<Head(x)>> \o CollapseSpaces(Tail(x))

norm_title_preserve_version(t) == CollapseSpaces(strip_accents(Lower(Strip(t))))

\* str(None) or the decimal digits
OptIntStr(o) == IF o = None THEN <<"N","o","n","e">> ELSE IntStr(o[1])

make_dedupe_key(title, duration) ==
    norm_title_preserve_version(title) \o <<"|">>
        \o OptIntStr(parse_duration_to_seconds(duration))

\* -------------------------------------------------------- should_exclude
\* A pattern is a sequence of literal characters and of the token "\\s*";
\* every pattern of the source is wrapped in \b ... \b.
EXCLUDE_PATTERNS == <<
    <<"m","o","u","r","i">>,
    <<"mu","omicron","upsilon","rho","eta">>,
    <<"mu","omicron","upsilon_tonos","rho","eta">>,
    <<"s","t","a"," ","h","r","o","n","i","a"," ","t","i","s"," ",
      "i","p","o","m","o","n","i","s","\\s*","-","\\s*",
      "r","e","m","a","s","t","e","r","e","d","\\s*","2","0","0","5">> >>

WordAt(x, i) == i \in 1..Len(x) /\ IsWordChar(x[i])

\* \b at the gap before x[i]
WordBoundary(x, i) == WordAt(x, i - 1) # WordAt(x, i)

\* p[k..] followed by \b matches x from position i on
RECURSIVE MatchFrom(_, _, _, _)
MatchFrom(p, k, x, i) ==
    IF k > Len(p) THEN WordBoundary(x, i)
    ELSE IF p[k] = "\\s*"
    THEN \/ MatchFrom(p, k + 1, x, i)
         \/ (i <= Len(x) /\ IsSpace(x[i]) /\ MatchFrom(p, k, x, i + 1))
    ELSE /\ i <= Len(x)
         /\ LowerChar(x[i]) = LowerChar(p[k])
         /\ MatchFrom(p, k + 1, x, i + 1)

\* re.search(r"\b" + p + r"\b", x, flags=re.IGNORECASE)
ReSearch(p, x) ==
    \E i \in 1..(Len(x) + 1) : WordBoundary(x, i) /\ MatchFrom(p, 1, x, i)

should_exclude(title) ==
    LET nt == norm_title_preserve_version(title)
    IN  \E n \in 1..Len(EXCLUDE_PATTERNS) : ReSearch(EXCLUDE_PATTERNS[n], nt)

\* ----------------------------------------------------- find_tracks_table
\* A document is the sequence of its tables; a table has the texts of its
\* th cells and, for every tr, the texts of its td cells.
REQUIRED_HEADERS == {
    <<"t","r","a","c","k">>,
    <<"p","l","a","y","s">>,
    <<"d","u","r","a","t","i","o","n">>,
    <<"r","e","l","e","a","s","e"," ","d","a","t","e">> }

TableMatches(tbl) ==
    REQUIRED_HEADERS \subseteq {Lower(Strip(tbl.headers[k])) : k \in 1..Len(tbl.headers)}

\* the index of the first matching table, None when there is none
find_tracks_table(soup) ==
    IF \E n \in 1..Len(soup) : TableMatches(soup[n])
    THEN Some(CHOOSE n \in 1..Len(soup) :
                /\ TableMatches(soup[n])
                /\ \A j \in 1..(n - 1) : ~TableMatches(soup[j]))
    ELSE None

\* ---------------------------------------------------- table_to_dataframe
\* h.strip().lower().replace(" ", "_"), then the rename of track to title
ColumnName(h) ==
    LET low == Lower(Strip(h))
        c   == [k \in 1..Len(low) |-> IF low[k] = " " THEN "_" ELSE low[k]]
    IN  IF c = <<"t","r","a","c","k">> THEN <<"t","i","t","l","e">> ELSE c

\* position of the first column called name
ColumnIndex(cols, name) ==
    CHOOSE k \in 1..Len(cols) :
        cols[k] = name /\ \A j \in 1..(k - 1) : cols[j] # name

\* rows kept by the guard "not tds or len(tds) < len(headers)"
KeptRows(tbl) ==
    SelectSeq(tbl.rows, LAMBDA tds : tds # <<>> /\ Len(tds) >= Len(tbl.headers))

\* The frame before dropna: a text cell is never missing, plays is the
\* Optional result of parse_human_int.  cover_url is not modelled.
RawFrame(tbl) ==
    LET kept     == KeptRows(tbl)
        cols     == [k \in 1..Len(tbl.headers) |-> ColumnName(tbl.headers[k])]
        title    == ColumnIndex(cols, <<"t","i","t","l","e">>)
        plays    == ColumnIndex(cols, <<"p","l","a","y","s">>)
        duration == ColumnIndex(cols, <<"d","u","r","a","t","i","o","n">>)
        released == ColumnIndex(cols, <<"r","e","l","e","a","s","e","_","d","a","t","e">>)
    IN  [k \in 1..Len(kept) |->
            [title        |-> Some(kept[k][title]),
             plays        |-> parse_human_int(kept[k][plays]),
             duration     |-> kept[k][duration],
             release_date |-> kept[k][released]]]

\* df.dropna(subset=["title", "plays"]), the Optionals unwrapped
DropNa(frame) ==
    LET kept == SelectSeq(frame, LAMBDA rec : rec.title # None /\ rec.plays # None)
    IN  [k \in 1..Len(kept) |->
            [title |-> kept[k].title[1], plays |-> kept[k].plays[1],
             duration |-> kept[k].duration, release_date |-> kept[k].release_date]]

table_to_dataframe(tbl) == DropNa(RawFrame(tbl))

\* the frame with no row filtered out
ExcludeNothing(frame) == frame

\* df[~df["title"].apply(should_exclude)]
Exclude(frame) == SelectSeq(frame, LAMBDA rec : ~should_exclude(rec.title))

\* ---------------------------------------------------------------- dedupe
KeyOf(rec) == make_dedupe_key(rec.title, rec.duration)

RECURSIVE SetSum(_)
SetSum(S) ==
    IF S = {} THEN 0
    ELSE LET e == CHOOSE x \in S : TRUE IN e.plays + SetSum(S \ {e})

MaxPlays(S) == CHOOSE p \in {x.plays : x \in S} : \A x \in S : x.plays <= p

\* agg plays="min" in place of "max"
MinPlays(S) == CHOOSE p \in {x.plays : x \in S} : \A x \in S : x.plays >= p

GroupPlaysMin(S) == MinPlays(S)

\* agg(plays=("plays", "max"))
GroupPlays(S) == MaxPlays(S)

\* The frames sort_values("plays", ascending=False).groupby("_key").agg(...)
\* can produce: one record per key, plays the maximum of the group, the text
\* columns those of the group's first row in the sorted order.  The sort is
\* pandas' default quicksort, which is not stable, so any row of the group
\* holding the maximum may come first.
DedupeRows(rows) ==
    LET keyed    == {<<KeyOf(x), x>> : x \in rows}
        keys     == {p[1] : p \in keyed}
        group(k) == {p[2] : p \in {q \in keyed : q[1] = k}}
        first(k) == LET g == group(k) IN {x \in g : x.plays = MaxPlays(g)}
    IN  {{[title |-> f[k].title, plays |-> GroupPlays(group(k)),
           duration |-> f[k].duration, release_date |-> f[k].release_date]
            : k \in keys} : f \in {f \in [keys -> rows] : \A k \in keys : f[k] \in first(k)}}

DedupeResults(frame) == DedupeRows(Range(frame))

\* ------------------------------------------------------------ file names
OUT_TRACKS_DIR == <<"m","m","v","_","t","r","a","c","k","s","_","d","a","i","l","y">>
SOURCE_NAME == <<"M","u","s","i","c","M","e","t","r","i","c","s","V","a","u","l","t",
                 ".","c","o","m"," ","(","p","e","r","s","o","n","a","l"," ","u","s","e",")">>
HEADER_LINE == <<"d","a","t","e",",","t","o","t","a","l","_","p","l","a","y","s",",",
                 "d","a","i","l","y","_","d","e","l","t","a",",","s","o","u","r","c","e">>

TrackFilePrefix ==
    OUT_TRACKS_DIR \o <<"/">>
        \o <<"m","m","v","_","t","r","a","c","k","_","s","t","r","e","a","m","s","_">>

\* a file name that does not carry the date
RawPathFixed(today) == TrackFilePrefix \o <<".","c","s","v">>

raw_path(today) == TrackFilePrefix \o today \o <<".","c","s","v">>

dedup_path(today) ==
    TrackFilePrefix \o today \o <<"_","d","e","d","u","p","e","d",".","c","s","v">>

\* dt.date(2024, 1, day).strftime("%Y-%m-%d")
DateStr(day) ==
    <<"2","0","2","4","-","0","1","-">>
        \o (IF day < 10 THEN <<"0">> ELSE <<>>) \o NatStr(day)

VARIABLES
    pc,             \* position of main(): idle, fetch, fetched, save_raw,
                    \*   dedupe, history, done, aborted, failed
    clock,          \* the calendar day dt.date.today() answers with
    runs,           \* invocations of main() so far
    tries,          \* HTTP GETs issued by the current fetch()
    r,              \* outcome of the last GET: a response or an exception
    last_err,       \* fetch(): last_err
    error,          \* message of the exception that ended the run
    html,           \* the fetched document: the sequence of its tables
    df,             \* main(): df after extraction and exclusion
    today_str,      \* main(): today_str
    df_dedup,       \* main(): df_dedup
    deduped_total,  \* main(): deduped_total
    lines,          \* main(): lines, as read from the totals file (line 178)
    daily_delta,    \* main(): daily_delta
    total_csv,      \* OUT_TOTAL_CSV: None when absent, else Some(its lines)
    tracks_dir,     \* OUT_TRACKS_DIR: file name -> content
    parse_call      \* one call of parse_human_int: argument and result

vars == <<pc, clock, runs, tries, r, last_err, error, html, df, today_str,
          df_dedup, deduped_total, lines, daily_delta, total_csv,
          tracks_dir, parse_call>>

pipeline_vars == <<pc, clock, runs, tries, r, last_err, error, html, df,
                   today_str, df_dedup, deduped_total, lines,
                   daily_delta, total_csv, tracks_dir>>

\* ------------------------------------------------- total-history helpers
\* [ln for ln in f.readlines() if ln.strip()]; a line is kept without its
\* line terminator, which the final write restores where it is missing
ReadLines(file) == SelectSeq(file, LAMBDA ln : Strip(ln) # <<>>)

IsHeaderLine(ln) == StartsWith(ln, <<"d","a","t","e",",">>)

IsDateLine(ln, today) == StartsWith(ln, today \o <<",">>)

\* ln.split(",")[1]: None stands for the IndexError of a line without comma
SecondField(ln) ==
    LET c1   == FirstIndex(ln, ",")
        rest == SubSeq(ln, c1 + 1, Len(ln))
        c2   == FirstIndex(rest, ",")
    IN  IF c1 = 0 THEN None
        ELSE Some(IF c2 = 0 THEN rest ELSE SubSeq(rest, 1, c2 - 1))

\* int(text): None stands for the ValueError
PyInt(text) ==
    LET x      == Strip(text)
        signed == x # <<>> /\ Head(x) \in {"-", "+"}
        digits == IF signed THEN Tail(x) ELSE x
    IN  IF IsDigitStr(digits)
        THEN Some(IF signed /\ Head(x) = "-" THEN 0 - IntOfDigits(digits)
                  ELSE IntOfDigits(digits))
        ELSE None

LineTotal(ln) == IF SecondField(ln) = None THEN None ELSE PyInt(SecondField(ln)[1])

\* the total of the last line with an int second field, today's included
PrevTotalIncludingToday(lns, today) ==
    IF \E k \in 1..Len(lns) : ~IsHeaderLine(lns[k]) /\ LineTotal(lns[k]) # None
    THEN LineTotal(lns[CHOOSE k \in 1..Len(lns) :
            /\ ~IsHeaderLine(lns[k]) /\ LineTotal(lns[k]) # None
            /\ \A j \in (k + 1)..Len(lns) :
                  IsHeaderLine(lns[j]) \/ LineTotal(lns[j]) = None])
    ELSE None

\* the loop "for ln in reversed(lines)" of main(): the total of the last line
\* that is neither the header nor today's and whose second field is an int
RECURSIVE PrevTotal(_, _)
PrevTotal(lns, today) ==
    IF lns = <<>> THEN None
    ELSE LET ln == lns[Len(lns)]
         IN  IF ~IsHeaderLine(ln) /\ ~IsDateLine(ln, today) /\ LineTotal(ln) # None
             THEN LineTotal(ln)
             ELSE PrevTotal(SubSeq(lns, 1, Len(lns) - 1), today)

\* 0 if prev_total is None else (deduped_total - prev_total)
DailyDelta(total, prev_total) ==
    IF prev_total = None THEN 0 ELSE total - prev_total[1]

TodayLine(today, total, delta) ==
    today \o <<",">> \o IntStr(total) \o <<",">> \o IntStr(delta)
          \o <<",">> \o SOURCE_NAME

\* index of the last line dated today, 0 when there is none
LastDateLine(lns, today) ==
    IF \E k \in 1..Len(lns) : IsDateLine(lns[k], today)
    THEN CHOOSE k \in 1..Len(lns) :
            /\ IsDateLine(lns[k], today)
            /\ \A j \in (k + 1)..Len(lns) : ~IsDateLine(lns[j], today)
    ELSE 0

\* the update without the replacement loop of lines 195-199
UpsertAlwaysAppend(lns, today, today_line) ==
    IF lns = <<>> THEN <<HEADER_LINE, today_line>>
    ELSE (IF IsHeaderLine(lns[1]) THEN <<>> ELSE <<HEADER_LINE>>)
            \o Append(lns, today_line)

\* lines 190-205 of main(): the lines the totals file holds after the write
Upsert(lns, today, today_line) ==
    IF lns = <<>> THEN <<HEADER_LINE, today_line>>
    ELSE LET at   == LastDateLine(lns, today)
             body == IF at > 0 THEN [lns EXCEPT ![at] = today_line]
                     ELSE Append(lns, today_line)
         IN  (IF IsHeaderLine(body[1]) THEN <<>> ELSE <<HEADER_LINE>>) \o body

\* ------------------------------------------------------------------ files
CompleteFile(rows) == [complete |-> TRUE, rows |-> rows]

\* what a write leaves that failed after the file was opened for writing
TruncatedFile(empty) == [complete |-> FALSE, rows |-> empty]

WriteFile(dir, path, content) ==
    [q \in (DOMAIN dir) \cup {path} |-> IF q = path THEN content ELSE dir[q]]

\* ----------------------------------------------------------- environment
Table(headers, rows) == [headers |-> headers, rows |-> rows]

StdHeaders ==
    << <<"T","r","a","c","k">>, <<"P","l","a","y","s">>,
       <<"D","u","r","a","t","i","o","n">>,
       <<"R","e","l","e","a","s","e"," ","D","a","t","e">> >>

\* a header row with a leading rank column and other letter case
RankedHeaders ==
    << <<"#">>, <<"T","R","A","C","K">>, <<" ","p","l","a","y","s">>,
       <<"D","u","r","a","t","i","o","n">>,
       <<"R","e","l","e","a","s","e"," ","d","a","t","e">> >>

OtherHeaders == << <<"S","o","n","g">>, <<"S","t","r","e","a","m","s">> >>

Year == <<"2","0","2","0">>
KaliMera == <<"K","a","l","i"," ","M","e","r","a">>

Cells(title, plays, duration) == <<title, plays, duration, Year>>

\* Rows a scraped table is built from (single-run specification).
RowSet == {
    Cells(KaliMera, <<"5","0","0">>, <<"3",":","2","0">>),
    Cells(<<"k","a","l","i"," "," ","m","e","r","a">>, <<"5","2","0">>, <<"2","0","0">>),
    Cells(KaliMera, <<"5","2","0">>, <<"3",":","2","0">>),
    Cells(KaliMera, <<"7","0">>, <<"4",":","0","0">>),
    Cells(<<"M","o","u","r","i">>, <<"9",",","9","9","9">>, <<"2",":","1","0">>),
    Cells(<<"Mu","omicron","upsilon_tonos","rho","eta">>, <<"8","0","0">>, <<"2",":","1","0">>),
    Cells(<<>>, <<"1","0","0">>, <<"3",":","2","0">>),
    Cells(KaliMera, <<"1",".","2","k">>, <<"3",":","2","0">>),
    <<KaliMera, <<"3","0">>>> }

RECURSIVE SeqsUpTo(_, _)
SeqsUpTo(S, n) ==
    IF n = 0 THEN {<<>>}
    ELSE LET shorter == SeqsUpTo(S, n - 1)
         IN  shorter \cup {Append(x, e) : x \in shorter, e \in S}

ScrapePages == {<<Table(StdHeaders, rows)>> : rows \in SeqsUpTo(RowSet, MaxRows)}

\* Documents the artist page answers with over the days (multi-run
\* specification): a table with a duplicate and an excluded row, a later
\* state of it behind a table of another schema, and a redesigned page.
PageA ==
    <<Table(StdHeaders,
        << Cells(KaliMera, <<"5","0","0">>, <<"3",":","2","0">>),
           Cells(<<"k","a","l","i"," "," ","m","e","r","a">>, <<"5","2","0">>, <<"2","0","0">>),
           Cells(<<"M","o","u","r","i">>, <<"9",",","9","9","9">>, <<"2",":","1","0">>) >>)>>

PageB ==
    <<Table(OtherHeaders, << <<KaliMera, <<"1">>>> >>),
      Table(RankedHeaders,
        << <<<<"1">>, KaliMera, <<"5","4","0">>, <<"3",":","2","0">>, Year>>,
           Cells(KaliMera, <<"9","9">>, <<"3",":","2","0">>) >>)>>

PageC == <<Table(OtherHeaders, << <<KaliMera, <<"1">>>> >>)>>

SitePages == {PageA, PageB, PageC}

Response(status, text) == [kind |-> "response", status |-> status, text |-> text]

Raised(message) == [kind |-> "exception", status |-> 0, text |-> message]

\* what requests.get can answer with
Outcomes ==
    {Response(200, page) : page \in SitePages}
        \cup {Response(503, <<>>),
              Raised(<<"t","i","m","e","d"," ","o","u","t">>)}

\* --------------------------------------------------------------- fetch()
\* range(retries + 1)
MoreTriesOffByOne == tries <= retries

\* range(retries) has another value
MoreTries == tries < retries

\* f"HTTP {r.status_code}" or str(e)
ErrText(out) ==
    IF out.kind = "exception" THEN out.text
    ELSE <<"H","T","T","P"," ">> \o IntStr(out.status)

\* main() is invoked
StartRun ==
    /\ pc \in {"idle", "done", "aborted", "failed"}
    /\ runs < MaxRuns
    /\ runs' = runs + 1
    /\ pc' = "fetch"
    /\ tries' = 0
    /\ r' = None
    /\ last_err' = None
    /\ error' = None
    /\ html' = <<>>
    /\ df' = <<>>
    /\ today_str' = <<>>
    /\ df_dedup' = {}
    /\ deduped_total' = 0
    /\ lines' = <<>>
    /\ daily_delta' = 0
    /\ UNCHANGED <<clock, total_csv, tracks_dir, parse_call>>

\* one pass of the loop of fetch(): a GET, then return or sleep
FetchAttempt ==
    /\ pc = "fetch"
    /\ MoreTries
    /\ \E out \in Outcomes :
        /\ r' = Some(out)
        /\ tries' = tries + 1
        /\ \/ /\ out.kind = "response" /\ out.status = 200
              /\ html' = out.text
              /\ pc' = "fetched"
              /\ UNCHANGED last_err
           \/ /\ ~(out.kind = "response" /\ out.status = 200)
              /\ last_err' = Some(ErrText(out))
              /\ UNCHANGED <<html, pc>>
    /\ UNCHANGED <<clock, runs, error, df, today_str, df_dedup, deduped_total,
                   lines, daily_delta, total_csv, tracks_dir, parse_call>>

\* the loop of fetch() is over: raise RuntimeError(f"Fetch failed: {last_err}")
FetchRaise ==
    /\ pc = "fetch"
    /\ ~MoreTries
    /\ pc' = "failed"
    /\ error' = Some(<<"F","e","t","c","h"," ","f","a","i","l","e","d",":"," ">>
                        \o (IF last_err = None THEN <<"N","o","n","e">> ELSE last_err[1]))
    /\ UNCHANGED <<clock, runs, tries, r, last_err, html, df, today_str, df_dedup,
                   deduped_total, lines, daily_delta, total_csv, tracks_dir,
                   parse_call>>

\* ---------------------------------------------------------------- main()
\* lines 119-137: fetch() has returned and its locals (i, r, last_err) are
\* gone; locate the table, extract its rows, drop the excluded
Locate ==
    /\ pc = "fetched"
    /\ tries' = 0
    /\ r' = None
    /\ last_err' = None
    /\ LET tbl == find_tracks_table(html)
       IN  \/ /\ tbl = None
              /\ pc' = "aborted"
              /\ UNCHANGED df
           \/ /\ tbl # None
              /\ df' = Exclude(table_to_dataframe(html[tbl[1]]))
              /\ pc' = "save_raw"
    /\ UNCHANGED <<clock, runs, error, html, today_str,
                   df_dedup, deduped_total, lines, daily_delta, total_csv,
                   tracks_dir, parse_call>>

OSError == <<"O","S","E","r","r","o","r">>

\* lines 139-144: today's date is read and the raw snapshot is written
SaveRaw ==
    /\ pc = "save_raw"
    /\ today_str' = DateStr(clock)
    /\ \/ /\ tracks_dir' = WriteFile(tracks_dir, raw_path(today_str'), CompleteFile(df))
          /\ pc' = "dedupe"
          /\ UNCHANGED error
       \/ /\ tracks_dir' = WriteFile(tracks_dir, raw_path(today_str'), TruncatedFile(<<>>))
          /\ pc' = "failed"
          /\ error' = Some(OSError)
       \/ /\ UNCHANGED tracks_dir
          /\ pc' = "failed"
          /\ error' = Some(OSError)
    /\ UNCHANGED <<clock, runs, tries, r, last_err, html, df, df_dedup,
                   deduped_total, lines, daily_delta, total_csv, parse_call>>

\* lines 146-169: dedupe, write the deduped snapshot, sum the plays
SaveDeduped ==
    /\ pc = "dedupe"
    /\ \E d \in DedupeResults(df) :
        /\ df_dedup' = d
        /\ \/ /\ tracks_dir' =
                    WriteFile(tracks_dir, dedup_path(today_str), CompleteFile(d))
              /\ deduped_total' = SetSum(d)
              /\ pc' = "history"
              /\ UNCHANGED error
           \/ /\ tracks_dir' =
                    WriteFile(tracks_dir, dedup_path(today_str), TruncatedFile({}))
              /\ pc' = "failed"
              /\ error' = Some(OSError)
              /\ UNCHANGED deduped_total
           \/ /\ UNCHANGED <<tracks_dir, deduped_total>>
              /\ pc' = "failed"
              /\ error' = Some(OSError)
    /\ UNCHANGED <<clock, runs, tries, r, last_err, html, df, today_str,
                   lines, daily_delta, total_csv, parse_call>>

\* lines 171-207: read the totals file, compute the delta, upsert today's row
UpdateHistory ==
    /\ pc = "history"
    /\ LET read  == IF total_csv = None THEN <<>> ELSE ReadLines(total_csv[1])
           delta == DailyDelta(deduped_total, PrevTotal(read, today_str))
       IN  /\ lines' = read
           /\ daily_delta' = delta
           /\ \/ /\ total_csv' =
                       Some(Upsert(read, today_str,
                                   TodayLine(today_str, deduped_total, delta)))
                 /\ pc' = "done"
                 /\ UNCHANGED error
              \/ /\ total_csv' = Some(<<>>)
                 /\ pc' = "failed"
                 /\ error' = Some(OSError)
              \/ /\ UNCHANGED total_csv
                 /\ pc' = "failed"
                 /\ error' = Some(OSError)
    /\ UNCHANGED <<clock, runs, tries, r, last_err, html, df, today_str, df_dedup,
                   deduped_total, tracks_dir, parse_call>>

\* Midnight passes.  main() reads the date once (line 140), so a midnight
\* during a run acts as one before it or one after it: the clock moves
\* between runs.
Tick ==
    /\ pc \in {"idle", "done", "aborted", "failed"}
    /\ clock < LastDay
    /\ clock' = clock + 1
    /\ UNCHANGED <<pc, runs, tries, r, last_err, error, html, df, today_str,
                   df_dedup, deduped_total, lines, daily_delta, total_csv,
                   tracks_dir, parse_call>>

\* ---------------------------------------------------------- specifications
\* The pipeline at rest, before the first run.
PipelineIdle ==
    /\ pc = "idle"
    /\ clock = FirstDay
    /\ runs = 0
    /\ tries = 0
    /\ r = None
    /\ last_err = None
    /\ error = None
    /\ html = <<>>
    /\ df = <<>>
    /\ today_str = <<>>
    /\ df_dedup = {}
    /\ deduped_total = 0
    /\ lines = <<>>
    /\ daily_delta = 0
    /\ tracks_dir = <<>>

NoParseCall == parse_call = [arg |-> <<>>, returned |-> TRUE, ret |-> None]

\* The runs of the pipeline from an absent or an empty totals file.
Init ==
    /\ PipelineIdle
    /\ total_csv \in {None, Some(<<>>)}
    /\ NoParseCall

Next ==
    \/ StartRun
    \/ FetchAttempt
    \/ FetchRaise
    \/ Locate
    \/ SaveRaw
    \/ SaveDeduped
    \/ UpdateHistory
    \/ Tick

Spec == Init /\ [][Next]_vars

\* fetch() runs on: requests.get returns or raises within its timeout and
\* time.sleep(wait) ends
FairSpec == Spec /\ WF_vars(FetchAttempt) /\ WF_vars(FetchRaise)

\* The runs of the pipeline from a totals file that is already there and was
\* not written by these runs alone (main() reads whatever lines the file
\* holds: it skips lines it cannot parse and a header that is not first):
\* data lines of earlier days in any order, with or without the header.
ExistingRow(day) ==
    TodayLine(DateStr(day), 500 + 10 * day, 0)

UnparsableLine == DateStr(1) \o <<",","n","/","a">>

ExistingLines == {ExistingRow(day) : day \in 1..PastDays} \cup {UnparsableLine}

ExistingFiles ==
    {<<HEADER_LINE>> \o x : x \in SeqsUpTo(ExistingLines, MaxExisting)}
        \cup {<<ExistingRow(day)>> : day \in 1..PastDays}

InitExisting ==
    /\ PipelineIdle
    /\ \E file \in ExistingFiles : total_csv = Some(file)
    /\ NoParseCall

SpecExisting == InitExisting /\ [][Next]_vars

\* One run over every table of up to MaxRows rows, from the fetched document on.
InitScrape ==
    /\ pc = "fetched"
    /\ clock = FirstDay
    /\ runs = MaxRuns
    /\ tries = 1
    /\ \E page \in ScrapePages : html = page /\ r = Some(Response(200, page))
    /\ last_err = None
    /\ error = None
    /\ df = <<>>
    /\ today_str = <<>>
    /\ df_dedup = {}
    /\ deduped_total = 0
    /\ lines = <<>>
    /\ daily_delta = 0
    /\ tracks_dir = <<>>
    /\ total_csv = None
    /\ NoParseCall

NextScrape ==
    \/ Locate
    \/ SaveRaw
    \/ SaveDeduped
    \/ UpdateHistory

SpecScrape == InitScrape /\ [][NextScrape]_vars

\* Characters of the strings handed to parse_human_int.
ParseAlphabet == {"1", "5", ",", ".", "k", "M", " ", "x"}

ParseInputs == SeqsUpTo(ParseAlphabet, MaxStrLen)

InitParse ==
    /\ PipelineIdle
    /\ total_csv = None
    /\ \E x \in ParseInputs : parse_call = [arg |-> x, returned |-> FALSE, ret |-> None]

\* One call of parse_human_int.
ParseCall ==
    /\ ~parse_call.returned
    /\ parse_call' = [parse_call EXCEPT !.returned = TRUE,
                                        !.ret = parse_human_int(parse_call.arg)]
    /\ UNCHANGED pipeline_vars

NextParse == ParseCall

SpecParse == InitParse /\ [][NextParse]_vars

\* ------------------------------------------------------------------ claims
\* the lines the totals file holds
FileLines == IF total_csv = None THEN <<>> ELSE total_csv[1]

\* positions of the lines of a file dated date
RowsDated(file, date) == {k \in 1..Len(file) : IsDateLine(file[k], date)}

\* the records of the raw and of the deduped snapshot of a date
RawRows(date) ==
    IF raw_path(date) \in DOMAIN tracks_dir
    THEN Range(tracks_dir[raw_path(date)].rows) ELSE {}

DedupedRows(date) ==
    IF dedup_path(date) \in DOMAIN tracks_dir
    THEN tracks_dir[dedup_path(date)].rows ELSE {}

\* C1: from an absent or empty totals file, the file never holds two rows of
\* one date, and when a run completes the file holds exactly one row of the
\* run's date, which carries the total and the delta that run computed.
C1_OneRowPerDate ==
    /\ \A day \in FirstDay..LastDay :
          Cardinality(RowsDated(FileLines, DateStr(day))) <= 1
    /\ pc = "done" =>
          \E k \in 1..Len(FileLines) :
             /\ RowsDated(FileLines, today_str) = {k}
             /\ FileLines[k] = TodayLine(today_str, deduped_total, daily_delta)

\* a run has completed on a date whose row an earlier run wrote with other values
C1_Witness ==
    /\ pc = "done"
    /\ \E k \in 1..Len(lines) :
          /\ IsDateLine(lines[k], today_str)
          /\ lines[k] # TodayLine(today_str, deduped_total, daily_delta)

\* a line of the form 2024-01-dd,<int>,...
IsDataRow(ln) ==
    /\ Len(ln) > 11
    /\ SubSeq(ln, 1, 8) = <<"2","0","2","4","-","0","1","-">>
    /\ IsDigitStr(SubSeq(ln, 9, 10))
    /\ ln[11] = ","
    /\ LineTotal(ln) # None

DayOf(ln) == IntOfDigits(SubSeq(ln, 9, 10))

\* C2: the delta a completed run wrote is its total minus the total of the
\* row of the most recent earlier date in the file, 0 when the file has no
\* row of an earlier date, whatever the order of the rows in the file.
C2_DeltaAgainstMostRecentEarlierDate ==
    pc = "done" =>
       LET earlier == {k \in 1..Len(lines) :
                          IsDataRow(lines[k]) /\ DayOf(lines[k]) < DayOf(today_str)}
       IN  IF earlier = {} THEN daily_delta = 0
           ELSE \E k \in earlier :
                   /\ \A j \in earlier : DayOf(lines[j]) <= DayOf(lines[k])
                   /\ daily_delta = deduped_total - LineTotal(lines[k])[1]

\* the run read a row of its own date that carries the total it computed
SameDateSameTotal ==
    \E k \in 1..Len(lines) :
       IsDateLine(lines[k], today_str) /\ LineTotal(lines[k]) = Some(deduped_total)

\* C3: a run that completes for a date whose row already carries the same
\* total leaves the totals file as it read it: one row of that date, with
\* the same delta.
C3_UpsertIdempotent ==
    (pc = "done" /\ SameDateSameTotal) =>
       /\ FileLines = lines
       /\ Cardinality(RowsDated(FileLines, today_str)) = 1

\* the second run of a date repeated a total whose delta against the day
\* before is not 0
C3_Witness == pc = "done" /\ SameDateSameTotal /\ daily_delta # 0

\* C4: only the step that completes a run changes the totals file, so a run
\* that ends in a failure has left it as it was; and a run that fails in
\* fetch or finds no table has written no snapshot.
C4_FailureLeavesHistoryUntouched ==
    [][ /\ pc' # "done" => total_csv' = total_csv
        /\ (pc \in {"fetch", "fetched"} /\ pc' \in {"failed", "aborted"})
              => tracks_dir' = tracks_dir ]_vars

\* C5: no record with an excluded title is in a raw or a deduped snapshot,
\* and the total a completed run wrote is the sum of the plays of the
\* deduped snapshot of its date.
C5_ExclusionBeforePersistence ==
    /\ \A rec \in RawRows(today_str) \cup DedupedRows(today_str) :
          ~should_exclude(rec.title)
    /\ pc = "done" =>
          \E k \in RowsDated(FileLines, today_str) :
             LineTotal(FileLines[k]) = Some(SetSum(DedupedRows(today_str)))

\* a completed run over a table whose excluded row has the most plays
C5_Witness ==
    /\ pc = "done"
    /\ deduped_total > 0
    /\ \E n \in 1..Len(html[1].rows) :
          LET row == html[1].rows[n]
          IN  /\ Len(row) = 4
              /\ should_exclude(row[1])
              /\ parse_human_int(row[2]) # None
              /\ \A rec \in Range(df) : rec.plays < parse_human_int(row[2])[1]

\* C6: the deduped frame has exactly one record for every dedupe key of its
\* input, with the maximum of the plays of the input records of that key,
\* and deduplicating it again yields it unchanged.
C6_DedupeKeepsMaxPerKey ==
    pc \in {"history", "done"} =>
       /\ \A x \in Range(df) :
             \E y \in df_dedup : KeyOf(y) = KeyOf(x) /\ y.plays >= x.plays
       /\ \A y \in df_dedup :
             \E x \in Range(df) : KeyOf(x) = KeyOf(y) /\ x.plays = y.plays
       /\ \A y, z \in df_dedup : KeyOf(y) = KeyOf(z) => y = z
       /\ DedupeRows(df_dedup) = {df_dedup}

\* two input records of one key with different plays were collapsed
C6_Witness ==
    /\ pc = "done"
    /\ \E x, y \in Range(df) : KeyOf(x) = KeyOf(y) /\ x.plays < y.plays
    /\ Cardinality(df_dedup) < Len(df)

\* C7: every persisted record has a non-empty title and non-negative plays.
C7_BadRowsDiscarded ==
    \A rec \in RawRows(today_str) \cup DedupedRows(today_str) :
       rec.title # <<>> /\ rec.plays >= 0

\* the value the claim gives the human-number parser
IsNumericPart(x) ==
    LET dot == FirstIndex(x, ".")
    IN  IF dot = 0 THEN IsDigitStr(x)
        ELSE IsDigitStr(SubSeq(x, 1, dot - 1)) /\ IsDigitStr(SubSeq(x, dot + 1, Len(x)))

Magnitude(c) ==
    CASE LowerChar(c) = "k" -> 1000
      [] LowerChar(c) = "m" -> 1000000
      [] LowerChar(c) = "b" -> 1000000000
      [] OTHER -> 0

ScaledRound(x, mag) ==
    LET dot   == FirstIndex(x, ".")
        ipart == IF dot = 0 THEN x ELSE SubSeq(x, 1, dot - 1)
        fpart == IF dot = 0 THEN <<>> ELSE SubSeq(x, dot + 1, Len(x))
        unit  == Pow10(Len(fpart))
        n     == (IntOfDigits(ipart) * unit + IntOfDigits(fpart)) * mag
        q     == n \div unit
        rest  == n % unit
    IN  IF 2 * rest > unit \/ (2 * rest = unit /\ q % 2 = 1) THEN q + 1 ELSE q

ClaimedParse(text) ==
    LET x == Remove(Strip(text), ",")
    IN  IF x # <<>> /\ Magnitude(x[Len(x)]) > 0 /\ IsNumericPart(SubSeq(x, 1, Len(x) - 1))
        THEN Some(ScaledRound(SubSeq(x, 1, Len(x) - 1), Magnitude(x[Len(x)])))
        ELSE IF IsDigitStr(x) THEN Some(IntOfDigits(x)) ELSE None

\* C8: parse_human_int returns the numeric part times the magnitude of a
\* k, m or b suffix, the integer of a bare digit string, and None otherwise.
C8_HumanNumberParser ==
    parse_call.returned => parse_call.ret = ClaimedParse(parse_call.arg)

\* the status or exception text of an outcome of a GET
ObservedText(out) ==
    IF out.kind = "exception" THEN out.text
    ELSE <<"H","T","T","P"," ">> \o IntStr(out.status)

Succeeded(out) == out.kind = "response" /\ out.status = 200

\* C9: fetch makes at most retries GETs; it returns the markup of the first
\* GET that succeeds and makes none after it; a GET that fails is followed
\* by the next one; when all have failed it raises with the text of the
\* last failure; and it always ends.
C9_FetchBounded ==
    /\ [](tries <= retries)
    /\ [][ /\ (pc = "fetch" /\ pc' = "fetched") =>
                 /\ tries' = tries + 1
                 /\ Succeeded(r'[1])
                 /\ html' = r'[1].text
           /\ (pc = "fetch" /\ pc' = "fetch") =>
                 /\ tries' = tries + 1
                 /\ ~Succeeded(r'[1])
                 /\ last_err' = Some(ObservedText(r'[1]))
           /\ (pc = "fetch" /\ pc' = "failed") =>
                 /\ tries = retries
                 /\ ~Succeeded(r[1])
                 /\ error' = Some(<<"F","e","t","c","h"," ","f","a","i","l","e","d",":"," ">>
                                     \o ObservedText(r[1]))
           /\ pc # "fetch" => tries' <= tries ]_vars
    /\ (pc = "fetch") ~> (pc # "fetch")

\* every GET of a run failed, the last one with an exception
C9_Witness ==
    /\ pc = "failed"
    /\ tries = retries
    /\ error = Some(<<"F","e","t","c","h"," ","f","a","i","l","e","d",":"," ",
                      "t","i","m","e","d"," ","o","u","t">>)

\* the date a snapshot file name carries
DateOfArtifact(path) ==
    IF Len(path) >= Len(TrackFilePrefix) + 10
    THEN SubSeq(path, Len(TrackFilePrefix) + 1, Len(TrackFilePrefix) + 10)
    ELSE <<>>

====
